---- MODULE Spec2Model ----
(***************************************************************************)
(* The artist page cache of swingmusic (app/api/artist.py): the capacity-1 *)
(* ArtistsCache, the staged population of a CacheEntry, the two routes     *)
(* get_artist and get_artist_albums, and the classification of an artist's *)
(* albums into the five response buckets; and, of the ingestion library    *)
(* (server/app/lib/albumslib.py), find_album and GetAlbumTracks, each      *)
(* under a specification of its own (FindSpec, PoolSpec).                  *)
(*                                                                         *)
(* A request is a process.  Every call of an ArtistsCache classmethod is   *)
(* one atomic step, named after the source line it starts at; get_albums   *)
(* is two steps (its lookup and rebuild of entry.albums, lines 109-112,    *)
(* and its merge of the store's albums, lines 114-122).  Under Spec the    *)
(* requests of different threads interleave between steps; under SeqSpec   *)
(* a request starts only when no other is in flight.                       *)
(***************************************************************************)
EXTENDS Integers, Sequences, FiniteSets, TLC

VARIABLES
    cache,      \* ArtistsCache.artists: deque(maxlen=1) of CacheEntry
    lists,      \* the list objects that entry.albums / all_albums refer to
    flags,      \* the Album objects' is_single / is_EP / is_compilation
    proc,       \* each request thread: its position and its locals
    hist,       \* observer: the last get_artist_albums response (SeqSpec only)
    cls,        \* the classifier run on its own (ClassifySpec only)
    ALBUMS,     \* api.ALBUMS, the album list of the ingestion library
    find,       \* a find_album call: its arguments, locals and result
    DB_TRACKS,  \* api.DB_TRACKS, the shared track pool
    gat,        \* a GetAlbumTracks object and its find_tracks call
    mrg         \* the merge of get_albums run on its own (MergeSpec only)

\* the state of server/app/lib/albumslib.py, and the merge run on its own
libvars == <<ALBUMS, find, DB_TRACKS, gat, mrg>>

vars == <<cache, lists, flags, proc, hist, cls, libvars>>

(***************************************************************************)
(* Bounds and program constants                                            *)
(***************************************************************************)
\* the explicit ?limit= values tried are -1 .. MaxLimit
MaxLimit == 2
\* the longest album list handed to the classifier under ClassifySpec
MaxAlbums == 3
\* limit when the request gives none
DefaultLimit == 6
\* get_artist: "acount == 0 and tcount < 10"
TrackThreshold == 10

Procs == {"p1", "p2"}

Min(a, b) == IF a < b THEN a ELSE b
Max(a, b) == IF a > b THEN a ELSE b

(***************************************************************************)
(* Python list operations                                                  *)
(***************************************************************************)
\* s[:limit]  (a negative limit counts from the end)
Slice(s, limit) ==
    IF limit >= 0 THEN SubSeq(s, 1, Min(limit, Len(s)))
    ELSE SubSeq(s, 1, Max(0, Len(s) + limit))

\* s.remove(x): drops the first element equal to x
RECURSIVE ListRemove(_, _)
ListRemove(s, x) ==
    IF s = <<>> THEN <<>>
    ELSE IF Head(s) = x THEN Tail(s)
    ELSE <<Head(s)>> \o ListRemove(Tail(s), x)

RECURSIVE RemoveAll(_, _)
RemoveAll(s, xs) ==
    IF xs = <<>> THEN s ELSE RemoveAll(ListRemove(s, Head(xs)), Tail(xs))

\* "-".join(strs), a string being a sequence of characters
RECURSIVE Join(_)
Join(strs) ==
    IF strs = <<>> THEN <<>>
    ELSE IF Len(strs) = 1 THEN Head(strs)
    ELSE Head(strs) \o <<"-">> \o Join(Tail(strs))

\* x in s, for strings
IsSubstring(x, s) ==
    \E i \in 0..(Len(s) - Len(x)) : SubSeq(s, i + 1, i + Len(x)) = x


(***************************************************************************)
(* The stores (external, read-only)                                        *)
(***************************************************************************)
\* artist identities; "u" is known to no store
ArtistHashes == {"a", "b", "m", "z", "u"}
KnownArtists == {"a", "b", "m", "z"}

\* album identities of AlbumStore, with their credited album artists
AlbumHashes == {"al1", "al3", "al4"}
AlbumArtists == [al1 |-> {"a"}, al3 |-> {"z"}, al4 |-> {"a"}]
AlbumOrder == <<"al1", "al3", "al4">>
\* the identity as a string of characters; al0 and al2 are in no store,
\* only in the lists MergeSpec draws
HashStr == [al1 |-> <<"1", "1">>, al3 |-> <<"3", "3">>, al4 |-> <<"4", "4">>,
            al0 |-> <<"1">>, al2 |-> <<"1", "3">>]

Track(n, al, ar) == [trackhash |-> n, albumhash |-> al, artists |-> {ar}]

\* a: two albums credited (al4 has no track yet), one appearance on al3
\* b: no album credited, 4 tracks, one of them on an album the store lacks
\* m: no album credited, TrackThreshold tracks
\* z: credited with al3, no track of their own
AllTracks ==
    <<Track(1, "al1", "a"), Track(2, "al1", "a"), Track(3, "al3", "a"),
      Track(4, "al3", "b"), Track(5, "al3", "b"), Track(6, "al3", "b"),
      Track(7, "al9", "b")>>
    \o [i \in 1..TrackThreshold |-> Track(10 + i, "al3", "m")]

ArtistStore_get_artist_by_hash(artisthash) ==
    IF artisthash \in KnownArtists THEN artisthash ELSE "None"

TrackStore_get_tracks_by_artist(artisthash) ==
    SelectSeq(AllTracks, LAMBDA t : artisthash \in t.artists)

AlbumStore_get_album_by_hash(h) ==
    IF h \in AlbumHashes THEN h ELSE "None"

AlbumStore_get_albums_by_artisthash(artisthash) ==
    SelectSeq(AlbumOrder, LAMBDA al : artisthash \in AlbumArtists[al])

AlbumStore_count_albums_by_artisthash(artisthash) ==
    Len(AlbumStore_get_albums_by_artisthash(artisthash))

\* what the external per-album analysis (check_type, get_date_from_tracks,
\* check_is_single) may find for an album
Plain == [is_single |-> FALSE, is_EP |-> FALSE, is_compilation |-> FALSE]
DetectOutcomes(al) ==
    CASE al = "al1" -> {Plain, [Plain EXCEPT !.is_single = TRUE]}
      [] al = "al3" -> {[Plain EXCEPT !.is_compilation = TRUE]}
      [] OTHER      -> {[Plain EXCEPT !.is_EP = TRUE]}


(***************************************************************************)
(* CacheEntry and ArtistsCache                                             *)
(***************************************************************************)
\* deque(maxlen=1)
CacheMaxLen == 1

\* list objects: 0 is an empty list nobody appends to (the [] a CacheEntry
\* starts with, the [] a failed lookup returns); 1.. are the lists that
\* get_albums builds, shared by reference
ListIds == 1..(Cardinality(Procs) + CacheMaxLen)
ListVal(ls, id) == IF id = 0 THEN <<>> ELSE ls[id]

CacheEntry(artisthash, albumhashes, tracks) ==
    [albums         |-> 0,
     tracks         |-> IF Len(tracks) > 0 THEN tracks ELSE <<>>,
     artisthash     |-> artisthash,
     albumhashes    |-> albumhashes,
     type_checked   |-> FALSE,
     albums_fetched |-> FALSE]

\* the entries of the given artist, in deque order
EntriesOf(c, artisthash) == SelectSeq(c, LAMBDA e : e.artisthash = artisthash)

\* the index of the first entry of the artist, 0-based as in Python; -1 if none
get_albums_by_artisthash_index(c, artisthash) ==
    IF \E i \in 1..Len(c) : c[i].artisthash = artisthash
    THEN (CHOOSE i \in 1..Len(c) :
            /\ c[i].artisthash = artisthash
            /\ \A j \in 1..(i - 1) : c[j].artisthash # artisthash) - 1
    ELSE -1

albums_cached(c, ls, artisthash) ==
    \E i \in 1..Len(c) :
        c[i].artisthash = artisthash /\ Len(ListVal(ls, c[i].albums)) > 0

\* None (no entry) is as false as False to the caller's "if not"
albums_fetched(c, artisthash) ==
    /\ EntriesOf(c, artisthash) # <<>>
    /\ EntriesOf(c, artisthash)[1].albums_fetched

tracks_cached(c, artisthash) ==
    \E i \in 1..Len(c) : c[i].artisthash = artisthash /\ Len(c[i].tracks) > 0

\* mutant: the deque has no maxlen
add_entry_unbounded(c, artisthash, albumhashes, tracks) ==
    Append(c, CacheEntry(artisthash, albumhashes, tracks))


add_entry(c, artisthash, albumhashes, tracks) ==
    LET appended == Append(c, CacheEntry(artisthash, albumhashes, tracks))
    IN  IF Len(appended) > CacheMaxLen THEN Tail(appended) ELSE appended

\* "for h in albumhashes": within one running process the iteration order of
\* a set of strings is fixed by the strings' hashes
SetOrder == <<"al1", "al3", "al4", "al9">>
IterSet(S) == SelectSeq(SetOrder, LAMBDA h : h \in S)

\* get_albums, lines 111-112: the albums the store has for the entry's
\* album identities
ResolvedAlbums(albumhashes) ==
    SelectSeq([i \in 1..Len(IterSet(albumhashes)) |->
                 AlbumStore_get_album_by_hash(IterSet(albumhashes)[i])],
              LAMBDA al : al # "None")

\* get_albums, lines 114-120: the store's albums of the artist whose identity
\* is not found in the joined identities of the albums already there
MergedAlbums(albums, store_albums) ==
    LET all_albums_hash == Join([i \in 1..Len(albums) |-> HashStr[albums[i]]])
    IN  albums \o SelectSeq(store_albums,
                    LAMBDA al : ~IsSubstring(HashStr[al], all_albums_hash))

(***************************************************************************)
(* The classifier and the responses                                        *)
(***************************************************************************)
\* an Album object as the classifier reads it
AlbumObj(fl, al) ==
    [albumhash           |-> al,
     albumartists_hashes |-> AlbumArtists[al],
     is_single           |-> fl[al].is_single,
     is_EP               |-> fl[al].is_EP,
     is_compilation      |-> fl[al].is_compilation]

\* mutant: only the EPs are removed
remove_EPs_only(albums) == SelectSeq(albums, LAMBDA a : ~a.is_EP)


remove_EPs_and_singles(albums) ==
    SelectSeq(SelectSeq(albums, LAMBDA a : ~a.is_EP), LAMBDA a : ~a.is_single)

Singles(all_albums) == SelectSeq(all_albums, LAMBDA a : a.is_single)
Eps(all_albums) == SelectSeq(all_albums, LAMBDA a : a.is_EP)

\* lines 243-245: the albums that credit the artist, EPs and singles removed
PrimaryAlbums(artisthash, all_albums) ==
    remove_EPs_and_singles(
        SelectSeq(all_albums, LAMBDA a : artisthash \in a.albumartists_hashes))

\* mutant: the compilations are taken from every fetched album
Compilations_any_role(artisthash, all_albums) ==
    SelectSeq(remove_EPs_and_singles(all_albums), LAMBDA a : a.is_compilation)


Compilations(artisthash, all_albums) ==
    SelectSeq(PrimaryAlbums(artisthash, all_albums), LAMBDA a : a.is_compilation)

\* mutant: the compilations stay in albums
Albums_keep_compilations(artisthash, all_albums) ==
    PrimaryAlbums(artisthash, all_albums)

\* lines 248-249: each compilation is removed from albums
Albums(artisthash, all_albums) ==
    RemoveAll(PrimaryAlbums(artisthash, all_albums),
              Compilations(artisthash, all_albums))

\* mutant: EPs and singles stay in appearances
Appearances_unfiltered(artisthash, all_albums) ==
    SelectSeq(all_albums, LAMBDA a : artisthash \notin a.albumartists_hashes)


Appearances(artisthash, all_albums) ==
    remove_EPs_and_singles(
        SelectSeq(all_albums, LAMBDA a : artisthash \notin a.albumartists_hashes))

\* mutant: ?all= is ignored
EffectiveLimit_ignore_all(all_albums, limit, return_all) == limit

\* lines 258-259
EffectiveLimit(all_albums, limit, return_all) ==
    IF return_all THEN Len(all_albums) ELSE limit

\* lines 261-268
AlbumsResponse(artisthash, all_albums, limit, return_all) ==
    LET lim == EffectiveLimit(all_albums, limit, return_all)
    IN  [albums       |-> Slice(Albums(artisthash, all_albums), lim),
         singles      |-> Slice(Singles(all_albums), lim),
         eps          |-> Slice(Eps(all_albums), lim),
         appearances  |-> Slice(Appearances(artisthash, all_albums), lim),
         compilations |-> Slice(Compilations(artisthash, all_albums), lim)]

\* mutant: the threshold is inclusive
ArtistLimit_inclusive(tcount, acount, limit) ==
    IF acount = 0 /\ tcount <= TrackThreshold THEN tcount ELSE limit

\* get_artist, lines 194-198
ArtistLimit(tcount, acount, limit) ==
    IF acount = 0 /\ tcount < TrackThreshold THEN tcount ELSE limit

\* get_artist, lines 194-206: the tracks of the response
ArtistResponse(artisthash, tracks, limit) ==
    LET tcount == Len(tracks)
        acount == AlbumStore_count_albums_by_artisthash(artisthash)
    IN  Slice(tracks, ArtistLimit(tcount, acount, limit))


(***************************************************************************)
(* Requests                                                                *)
(***************************************************************************)
\* the request arguments tried: one request at a time, ?limit= absent or
\* -1 .. MaxLimit, with and without ?all=; with interleaved threads, where
\* the arguments change nothing but the slices of the response, neither
LimitValues == ((-1)..MaxLimit) \cup {DefaultLimit}
Limits(threaded) == IF threaded THEN {DefaultLimit} ELSE LimitValues
ReturnAlls(threaded) == IF threaded THEN {FALSE} ELSE BOOLEAN

NoResp == [tracks |-> <<>>, albums |-> <<>>, singles |-> <<>>, eps |-> <<>>,
           appearances |-> <<>>, compilations |-> <<>>]

NoHist == [artisthash |-> "none", limit |-> 0, return_all |-> FALSE, resp |-> NoResp]

\* a thread with no request.  held: the CacheEntry that get_albums holds
\* between its two steps, as its place in the deque (0: the entry was evicted
\* meanwhile, and heldList is its albums list; -1: none).  tc0, calls:
\* observers (the artist's hot entry was type-checked when the request came,
\* kept under SeqSpec; the albums this request handed to the external
\* analysis)
Idle ==
    [pc |-> "idle", kind |-> "none", artisthash |-> "none",
     held |-> -1, heldList |-> 0, all_albums |-> 0, index |-> -1,
     tc0 |-> FALSE, calls |-> 0,
     status |-> "none", limit |-> 0, return_all |-> FALSE, resp |-> NoResp]

\* the position of the first entry of the artist (1-based), 0 if none
EntryPos(c, artisthash) == get_albums_by_artisthash_index(c, artisthash) + 1

At(p, pc) == proc[p].pc = pc

Goto(p, pc) == [proc[p] EXCEPT !.pc = pc]

\* the request is over: its locals are gone, its outcome is left
Done(p, status, limit, return_all, resp) ==
    [Idle EXCEPT !.pc = "done", !.kind = proc[p].kind,
                 !.artisthash = proc[p].artisthash,
                 !.tc0 = proc[p].tc0, !.calls = proc[p].calls,
                 !.status = status, !.limit = limit,
                 !.return_all = return_all, !.resp = resp]

Raise(p, error) == Done(p, error, 0, FALSE, NoResp)

\* the list objects something still refers to
Refs(c, pr) ==
    ({c[i].albums : i \in 1..Len(c)}
     \cup {pr[p].heldList : p \in Procs}
     \cup {pr[p].all_albums : p \in Procs}) \ {0}

\* the new state: unreferenced list objects are collected
Update(c, ls, pr) ==
    /\ cache' = c
    /\ proc' = pr
    /\ lists' = [i \in ListIds |-> IF i \in Refs(c, pr) THEN ls[i] ELSE <<>>]

\* add_entry seen from the threads inside get_albums: when the deque drops
\* its oldest entry, a thread holding it keeps the detached object
AfterAdd(c, pr) ==
    IF Len(c) + 1 > CacheMaxLen
    THEN [p \in Procs |->
            IF pr[p].held = 1
            THEN [pr[p] EXCEPT !.held = 0, !.heldList = c[1].albums]
            ELSE IF pr[p].held > 1
            THEN [pr[p] EXCEPT !.held = pr[p].held - 1]
            ELSE pr[p]]
    ELSE pr

\* a request arrives
Start(p, threaded) ==
    /\ At(p, "idle")
    /\ threaded \/ \A q \in Procs : At(q, "idle")
    /\ \E kind \in {"artist", "albums"}, h \in ArtistHashes :
        proc' = [proc EXCEPT ![p] =
            [Idle EXCEPT !.pc = IF kind = "artist" THEN "l175" ELSE "l220",
                         !.kind = kind, !.artisthash = h,
                         !.tc0 = (/\ ~threaded
                                  /\ EntriesOf(cache, h) # <<>>
                                  /\ EntriesOf(cache, h)[1].type_checked)]]
    /\ UNCHANGED <<cache, lists, flags, hist, cls, libvars>>

\* get_artist, lines 168-180
L175(p) ==
    /\ At(p, "l175")
    /\ LET h == proc[p].artisthash
       IN  proc' = [proc EXCEPT ![p] =
             IF ArtistStore_get_artist_by_hash(h) = "None"
             THEN Done(p, "404", 0, FALSE, NoResp)
             ELSE IF tracks_cached(cache, h) THEN Goto(p, "l183")
             ELSE Goto(p, "l185")]
    /\ UNCHANGED <<cache, lists, flags, hist, cls, libvars>>

\* get_artist, line 183 (get_tracks) and lines 194-206
L183(p, threaded) ==
    /\ At(p, "l183")
    /\ LET h == proc[p].artisthash
       IN  IF EntriesOf(cache, h) = <<>>
           THEN proc' = [proc EXCEPT ![p] = Raise(p, "IndexError")]
           ELSE \E limit \in Limits(threaded) :
                  proc' = [proc EXCEPT ![p] =
                    Done(p, "200", limit, FALSE,
                         [NoResp EXCEPT !.tracks =
                            ArtistResponse(h, EntriesOf(cache, h)[1].tracks, limit)])]
    /\ UNCHANGED <<cache, lists, flags, hist, cls, libvars>>

\* get_artist, lines 185-192 (add_entry) and lines 194-206
L185(p, threaded) ==
    /\ At(p, "l185")
    /\ LET h == proc[p].artisthash
           tracks == TrackStore_get_tracks_by_artist(h)
           store_albums == AlbumStore_get_albums_by_artisthash(h)
           albumhashes ==
               {tracks[i].albumhash : i \in 1..Len(tracks)}
               \cup {store_albums[i] : i \in 1..Len(store_albums)}
       IN  \E limit \in Limits(threaded) :
             Update(add_entry(cache, h, albumhashes, tracks), lists,
                    [AfterAdd(cache, proc) EXCEPT ![p] =
                       Done(p, "200", limit, FALSE,
                            [NoResp EXCEPT !.tracks = ArtistResponse(h, tracks, limit)])])
    /\ UNCHANGED <<flags, hist, cls, libvars>>

\* get_artist_albums, lines 211-222 (albums_cached)
L220(p) ==
    /\ At(p, "l220")
    /\ proc' = [proc EXCEPT ![p] =
          IF albums_cached(cache, lists, proc[p].artisthash)
          THEN Goto(p, "l225") ELSE Goto(p, "l147")]
    /\ UNCHANGED <<cache, lists, flags, hist, cls, libvars>>

\* add_albums_to_cache, lines 147-155
L147(p) ==
    /\ At(p, "l147")
    /\ LET h == proc[p].artisthash
           tracks == TrackStore_get_tracks_by_artist(h)
           albumhashes == {tracks[i].albumhash : i \in 1..Len(tracks)}
       IN  IF Len(tracks) = 0
           THEN Update(cache, lists, [proc EXCEPT ![p] = Goto(p, "l225")])
           ELSE Update(add_entry(cache, h, albumhashes, <<>>), lists,
                       [AfterAdd(cache, proc) EXCEPT ![p] = Goto(p, "l225")])
    /\ UNCHANGED <<flags, hist, cls, libvars>>

\* get_artist_albums, lines 225-227 (albums_fetched)
L225(p) ==
    /\ At(p, "l225")
    /\ proc' = [proc EXCEPT ![p] =
          IF albums_fetched(cache, proc[p].artisthash)
          THEN Goto(p, "l230") ELSE Goto(p, "l109")]
    /\ UNCHANGED <<cache, lists, flags, hist, cls, libvars>>

\* get_albums, lines 109-112: the entry's albums become a new list of the
\* albums resolved from its album identities
L109(p) ==
    /\ At(p, "l109")
    /\ LET h == proc[p].artisthash
           pos == EntryPos(cache, h)
           free == ListIds \ Refs(cache, proc)
       IN  IF pos = 0
           THEN Update(cache, lists, [proc EXCEPT ![p] = Raise(p, "IndexError")])
           ELSE /\ free # {}
                /\ LET id == CHOOSE i \in free : \A j \in free : i <= j
                   IN  Update([cache EXCEPT ![pos].albums = id],
                              [lists EXCEPT ![id] =
                                 ResolvedAlbums(cache[pos].albumhashes)],
                              [proc EXCEPT ![p] =
                                 [proc[p] EXCEPT !.pc = "l114", !.held = pos]])
    /\ UNCHANGED <<flags, hist, cls, libvars>>

\* get_albums, lines 114-122: the store's albums of the artist are merged
\* into entry.albums and the entry is marked albums_fetched
L114(p) ==
    /\ At(p, "l114")
    /\ LET h == proc[p].artisthash
           held == proc[p].held
           target == IF held >= 1 THEN cache[held].albums ELSE proc[p].heldList
           merged == MergedAlbums(ListVal(lists, target),
                                  AlbumStore_get_albums_by_artisthash(h))
       IN  Update(IF held >= 1
                  THEN [cache EXCEPT ![held].albums_fetched = TRUE]
                  ELSE cache,
                  IF target = 0 THEN lists ELSE [lists EXCEPT ![target] = merged],
                  [proc EXCEPT ![p] =
                     [proc[p] EXCEPT !.pc = "l230", !.held = -1, !.heldList = 0]])
    /\ UNCHANGED <<flags, hist, cls, libvars>>

\* get_artist_albums, line 230 (get_albums_by_artisthash)
L230(p) ==
    /\ At(p, "l230")
    /\ LET h == proc[p].artisthash
           index == get_albums_by_artisthash_index(cache, h)
       IN  Update(cache, lists,
                  [proc EXCEPT ![p] =
                     [proc[p] EXCEPT !.pc = "l232", !.index = index,
                        !.all_albums = IF index >= 0 THEN cache[index + 1].albums
                                       ELSE 0]])
    /\ UNCHANGED <<flags, hist, cls, libvars>>

\* ArtistsCache.artists[index], Python's indexing of a deque
DequeItem(c, index) ==
    IF index >= 0 THEN (IF index < Len(c) THEN index + 1 ELSE 0)
    ELSE (IF -index <= Len(c) THEN Len(c) + index + 1 ELSE 0)

\* mutant: the albums are type-checked again whatever the entry says
L232_recheck(p) ==
    /\ At(p, "l232")
    /\ proc' = [proc EXCEPT ![p] =
          IF DequeItem(cache, proc[p].index) = 0 THEN Raise(p, "IndexError")
          ELSE Goto(p, "l129")]
    /\ UNCHANGED <<cache, lists, flags, hist, cls, libvars>>

\* get_artist_albums, line 232: artists[index].type_checked
L232(p) ==
    /\ At(p, "l232")
    /\ LET pos == DequeItem(cache, proc[p].index)
       IN  proc' = [proc EXCEPT ![p] =
             IF pos = 0 THEN Raise(p, "IndexError")
             ELSE IF ~cache[pos].type_checked THEN Goto(p, "l129")
             ELSE Goto(p, "l235")]
    /\ UNCHANGED <<cache, lists, flags, hist, cls, libvars>>

\* process_album_type, lines 129-140: every album of the entry goes through
\* the external analysis, then the entry is marked type_checked
L129(p) ==
    /\ At(p, "l129")
    /\ LET h == proc[p].artisthash
           pos == EntryPos(cache, h)
       IN  IF pos = 0
           THEN /\ Update(cache, lists, [proc EXCEPT ![p] = Raise(p, "IndexError")])
                /\ flags' = flags
           ELSE LET albums == ListVal(lists, cache[pos].albums)
                    seen == {albums[i] : i \in 1..Len(albums)}
                IN  /\ \E found \in [seen -> UNION {DetectOutcomes(al) : al \in AlbumHashes}] :
                         /\ \A al \in seen : found[al] \in DetectOutcomes(al)
                         /\ flags' = [al \in AlbumHashes |->
                               IF al \in seen
                               THEN [checked        |-> TRUE,
                                     is_single      |-> found[al].is_single,
                                     is_EP          |-> found[al].is_EP,
                                     is_compilation |-> found[al].is_compilation]
                               ELSE flags[al]]
                    /\ Update([cache EXCEPT ![pos].type_checked = TRUE], lists,
                              [proc EXCEPT ![p] =
                                 [proc[p] EXCEPT !.pc = "l235",
                                                 !.calls = proc[p].calls + Len(albums)]])
    /\ UNCHANGED <<hist, cls, libvars>>

\* get_artist_albums, lines 235-268: the buckets and the response
L235(p, threaded) ==
    /\ At(p, "l235")
    /\ LET h == proc[p].artisthash
           refs == ListVal(lists, proc[p].all_albums)
           all_albums == [i \in 1..Len(refs) |-> AlbumObj(flags, refs[i])]
           Short(bucket) == [i \in 1..Len(bucket) |-> bucket[i].albumhash]
       IN  IF ArtistStore_get_artist_by_hash(h) = "None"
           THEN Update(cache, lists, [proc EXCEPT ![p] = Raise(p, "AttributeError")])
           ELSE \E limit \in Limits(threaded), return_all \in ReturnAlls(threaded) :
                  LET r == AlbumsResponse(h, all_albums, limit, return_all)
                  IN  Update(cache, lists,
                        [proc EXCEPT ![p] =
                           Done(p, "200", limit, return_all,
                                [NoResp EXCEPT !.albums = Short(r.albums),
                                               !.singles = Short(r.singles),
                                               !.eps = Short(r.eps),
                                               !.appearances = Short(r.appearances),
                                               !.compilations = Short(r.compilations)])])
    /\ UNCHANGED <<flags, hist, cls, libvars>>

\* the response (or the error) has gone out
Return(p, threaded) ==
    /\ At(p, "done")
    /\ proc' = [proc EXCEPT ![p] = Idle]
    /\ hist' = IF threaded THEN hist
               ELSE IF proc[p].kind = "albums" /\ proc[p].status = "200"
               THEN [artisthash |-> proc[p].artisthash, limit |-> proc[p].limit,
                     return_all |-> proc[p].return_all, resp |-> proc[p].resp]
               ELSE NoHist
    /\ UNCHANGED <<cache, lists, flags, cls, libvars>>

NoCls == [artisthash |-> "none", all_albums |-> <<>>, limit |-> 0,
          return_all |-> FALSE, done |-> FALSE, resp |-> NoResp]

\* no find_album call, no GetAlbumTracks object, no merge under way
NoFind == [pc |-> "idle", albumtitle |-> "none", artist |-> "none",
           left |-> 0, right |-> 0, iter |-> 0,
           result |-> [ret |-> "none", index |-> 0]]
NoGat == [pc |-> "idle", hash |-> 0, tracks |-> <<>>, index |-> -1,
          pool0 |-> <<>>, result |-> <<>>]
NoMrg == [albums |-> <<>>, store_albums |-> <<>>, done |-> FALSE,
          result |-> <<>>]

\* the ingestion library at rest, with nothing loaded
LibIdle ==
    /\ ALBUMS = <<>>
    /\ find = NoFind
    /\ DB_TRACKS = <<>>
    /\ gat = NoGat
    /\ mrg = NoMrg

Init ==
    /\ cache = <<>>
    /\ lists = [i \in ListIds |-> <<>>]
    /\ flags = [al \in AlbumHashes |->
                  [checked |-> FALSE, is_single |-> FALSE, is_EP |-> FALSE,
                   is_compilation |-> FALSE]]
    /\ proc = [p \in Procs |-> Idle]
    /\ hist = NoHist
    /\ cls = NoCls
    /\ LibIdle

Step(p, threaded) ==
    \/ Start(p, threaded)
    \/ L175(p) \/ L183(p, threaded) \/ L185(p, threaded)
    \/ L220(p) \/ L147(p) \/ L225(p) \/ L109(p) \/ L114(p)
    \/ L230(p) \/ L232(p) \/ L129(p) \/ L235(p, threaded)
    \/ Return(p, threaded)

Next == \E p \in Procs : Step(p, TRUE)

SeqNext == \E p \in Procs : Step(p, FALSE)

\* the requests of different threads interleave
Spec == Init /\ [][Next]_vars

\* one request at a time
SeqSpec == Init /\ [][SeqNext]_vars


(***************************************************************************)
(* The classifier of get_artist_albums (lines 235-268) on its own: any     *)
(* list of type-checked albums, any flags, any request arguments           *)
(***************************************************************************)
\* the artist asked for, and another one
ClsArtist == "x"
ClsCredits == {{"x"}, {"y"}}

\* the album lists of a given length; an album's identity is its place
ClsAlbumLists(n) ==
    {l \in [1..n -> [albumhash : 1..n, albumartists_hashes : ClsCredits,
                     is_single : BOOLEAN, is_EP : BOOLEAN,
                     is_compilation : BOOLEAN]] :
        \A i \in 1..n : l[i].albumhash = i}

ClsInit ==
    /\ cache = <<>>
    /\ lists = [i \in ListIds |-> <<>>]
    /\ flags = [al \in AlbumHashes |->
                  [checked |-> FALSE, is_single |-> FALSE, is_EP |-> FALSE,
                   is_compilation |-> FALSE]]
    /\ proc = [p \in Procs |-> Idle]
    /\ hist = NoHist
    /\ LibIdle
    /\ \E n \in 0..MaxAlbums :
         \E l \in ClsAlbumLists(n), limit \in LimitValues, return_all \in BOOLEAN :
            cls = [NoCls EXCEPT !.artisthash = ClsArtist, !.all_albums = l,
                                !.limit = limit, !.return_all = return_all]

\* lines 235-268 applied to the drawn list
Classify ==
    /\ ~cls.done
    /\ LET r == AlbumsResponse(cls.artisthash, cls.all_albums, cls.limit,
                               cls.return_all)
           Short(bucket) == [i \in 1..Len(bucket) |-> bucket[i].albumhash]
       IN  cls' = [cls EXCEPT !.done = TRUE,
                     !.resp = [NoResp EXCEPT !.albums = Short(r.albums),
                                             !.singles = Short(r.singles),
                                             !.eps = Short(r.eps),
                                             !.appearances = Short(r.appearances),
                                             !.compilations = Short(r.compilations)]]
    /\ UNCHANGED <<cache, lists, flags, proc, hist, libvars>>

ClassifySpec == ClsInit /\ [][Classify]_vars


(***************************************************************************)
(* Properties of the classifier (ClassifySpec)                             *)
(***************************************************************************)
SetOf(s) == {s[i] : i \in 1..Len(s)}
Count(s, x) == Cardinality({i \in 1..Len(s) : s[i] = x})
ClsIds == 1..Len(cls.all_albums)
ClsPrimary(i) == cls.artisthash \in cls.all_albums[i].albumartists_hashes
ClsSingle(i) == cls.all_albums[i].is_single
ClsEP(i) == cls.all_albums[i].is_EP
ClsComp(i) == cls.all_albums[i].is_compilation
\* the response holds the whole buckets
ClsFull == cls.done /\ cls.return_all

\* C5, as claimed: the buckets albums, singles, eps and compilations of a
\* response are pairwise disjoint, whatever the flags and credits are
C5_PairwiseDisjoint ==
    cls.done =>
        /\ SetOf(cls.resp.albums) \cap SetOf(cls.resp.singles) = {}
        /\ SetOf(cls.resp.albums) \cap SetOf(cls.resp.eps) = {}
        /\ SetOf(cls.resp.albums) \cap SetOf(cls.resp.compilations) = {}
        /\ SetOf(cls.resp.singles) \cap SetOf(cls.resp.eps) = {}
        /\ SetOf(cls.resp.singles) \cap SetOf(cls.resp.compilations) = {}
        /\ SetOf(cls.resp.eps) \cap SetOf(cls.resp.compilations) = {}

\* C5, amended: albums and compilations are disjoint from each other and
\* from singles and eps; singles and eps share exactly the albums flagged
\* both is_single and is_EP
C5_DisjointExceptSinglesEps ==
    cls.done =>
        /\ SetOf(cls.resp.albums) \cap SetOf(cls.resp.singles) = {}
        /\ SetOf(cls.resp.albums) \cap SetOf(cls.resp.eps) = {}
        /\ SetOf(cls.resp.albums) \cap SetOf(cls.resp.compilations) = {}
        /\ SetOf(cls.resp.singles) \cap SetOf(cls.resp.compilations) = {}
        /\ SetOf(cls.resp.eps) \cap SetOf(cls.resp.compilations) = {}
        /\ \A i \in SetOf(cls.resp.singles) \cap SetOf(cls.resp.eps) :
              ClsSingle(i) /\ ClsEP(i)
        /\ cls.return_all =>
              SetOf(cls.resp.singles) \cap SetOf(cls.resp.eps)
                 = {i \in ClsIds : ClsSingle(i) /\ ClsEP(i)}

C5_Witness ==
    /\ ClsFull
    /\ SetOf(cls.resp.singles) \cap SetOf(cls.resp.eps) # {}
    /\ cls.resp.albums # <<>>
    /\ cls.resp.compilations # <<>>

\* C6: an album that credits the artist and is neither single nor EP is in
\* exactly one of albums / compilations, once: in compilations if flagged
\* is_compilation, in albums otherwise; no response has a compilation-flagged
\* album in albums
C6_CompilationPrecedence ==
    /\ cls.done => \A i \in SetOf(cls.resp.albums) : ~ClsComp(i)
    /\ ClsFull =>
         \A i \in ClsIds :
            (ClsPrimary(i) /\ ~ClsSingle(i) /\ ~ClsEP(i)) =>
               /\ Count(cls.resp.albums, i) = (IF ClsComp(i) THEN 0 ELSE 1)
               /\ Count(cls.resp.compilations, i) = (IF ClsComp(i) THEN 1 ELSE 0)

\* the scenario: A plain, B a single, C a compilation, all crediting the artist
C6_Witness ==
    /\ cls.done /\ ~cls.return_all /\ cls.limit = DefaultLimit
    /\ cls.all_albums =
         <<[albumhash |-> 1, albumartists_hashes |-> {ClsArtist},
            is_single |-> FALSE, is_EP |-> FALSE, is_compilation |-> FALSE],
           [albumhash |-> 2, albumartists_hashes |-> {ClsArtist},
            is_single |-> TRUE, is_EP |-> FALSE, is_compilation |-> FALSE],
           [albumhash |-> 3, albumartists_hashes |-> {ClsArtist},
            is_single |-> FALSE, is_EP |-> FALSE, is_compilation |-> TRUE]>>
    /\ cls.resp.albums = <<1>>
    /\ cls.resp.singles = <<2>>
    /\ cls.resp.eps = <<>>
    /\ cls.resp.compilations = <<3>>

\* C7: no album flagged is_single or is_EP is in albums, compilations or
\* appearances, and no album crediting the artist is in appearances
C7_SinglesEpsEliminated ==
    cls.done =>
        /\ \A i \in SetOf(cls.resp.albums) \cup SetOf(cls.resp.compilations)
                      \cup SetOf(cls.resp.appearances) :
              ~ClsSingle(i) /\ ~ClsEP(i)
        /\ \A i \in SetOf(cls.resp.appearances) : ~ClsPrimary(i)

C7_Witness ==
    /\ ClsFull
    /\ cls.resp.appearances # <<>>
    /\ \E i \in ClsIds : ~ClsPrimary(i) /\ ClsSingle(i)
    /\ \E i \in ClsIds : ClsPrimary(i) /\ ClsEP(i)

\* C8, as claimed: albums, singles, eps and compilations together are
\* exactly the fetched albums that credit the artist
C8_UnionIsPrimary ==
    ClsFull =>
        SetOf(cls.resp.albums) \cup SetOf(cls.resp.singles)
          \cup SetOf(cls.resp.eps) \cup SetOf(cls.resp.compilations)
        = {i \in ClsIds : ClsPrimary(i)}

\* C8, amended: together they are the fetched albums that credit the artist
\* and, whatever their credits, every fetched single and EP
C8_UnionIsPrimaryOrSingleOrEP ==
    ClsFull =>
        SetOf(cls.resp.albums) \cup SetOf(cls.resp.singles)
          \cup SetOf(cls.resp.eps) \cup SetOf(cls.resp.compilations)
        = {i \in ClsIds : ClsPrimary(i) \/ ClsSingle(i) \/ ClsEP(i)}

C8_Witness ==
    /\ ClsFull
    /\ \E i \in ClsIds : ~ClsPrimary(i) /\ ClsSingle(i) /\ i \in SetOf(cls.resp.singles)
    /\ \E i \in ClsIds : ClsPrimary(i) /\ i \in SetOf(cls.resp.albums)
    /\ \E i \in ClsIds : ~ClsPrimary(i) /\ ClsComp(i) /\ ~ClsSingle(i) /\ ~ClsEP(i)

\* the five buckets before the slices, as identities
ClsBuckets ==
    LET Short(bucket) == [i \in 1..Len(bucket) |-> bucket[i].albumhash]
    IN  <<Short(Albums(cls.artisthash, cls.all_albums)),
          Short(Singles(cls.all_albums)),
          Short(Eps(cls.all_albums)),
          Short(Appearances(cls.artisthash, cls.all_albums)),
          Short(Compilations(cls.artisthash, cls.all_albums))>>
ClsSlices ==
    <<cls.resp.albums, cls.resp.singles, cls.resp.eps, cls.resp.appearances,
      cls.resp.compilations>>
FirstN(s, n) == [i \in 1..(IF n < Len(s) THEN n ELSE Len(s)) |-> s[i]]

\* C9, as claimed: for every integer limit each bucket of the response is the
\* first min(limit, size) elements of the bucket, and the whole bucket with ?all=
C9_FirstMinLimit ==
    cls.done =>
        \A k \in 1..5 :
           ClsSlices[k] = IF cls.return_all THEN ClsBuckets[k]
                          ELSE IF cls.limit <= 0 THEN <<>>
                          ELSE FirstN(ClsBuckets[k], cls.limit)

\* C9, amended: that holds for every limit >= 0; a limit < 0 drops the last
\* -limit elements of each bucket instead
C9_FirstMinLimitNonNegative ==
    cls.done =>
        \A k \in 1..5 :
           ClsSlices[k] = IF cls.return_all THEN ClsBuckets[k]
                          ELSE IF cls.limit >= 0 THEN FirstN(ClsBuckets[k], cls.limit)
                          ELSE FirstN(ClsBuckets[k], Max(0, Len(ClsBuckets[k]) + cls.limit))

C9_Witness ==
    /\ cls.done /\ ~cls.return_all /\ cls.limit = MaxLimit
    /\ Len(ClsBuckets[2]) = MaxLimit + 1
    /\ cls.resp.singles = FirstN(ClsBuckets[2], MaxLimit)
    /\ Len(cls.resp.singles) = MaxLimit


(***************************************************************************)
(* Properties of the cache and the routes                                  *)
(***************************************************************************)
IsDone(p, kind) == proc[p].pc = "done" /\ proc[p].kind = kind
Answered(p) == proc[p].status \in {"200", "404"}

\* C1, as claimed: the deque holds at most one entry, and once a request that
\* follows a request for another artist has been answered, the one entry
\* cached is the entry of the artist it asked for
C1_HotIsLastRequested ==
    /\ Len(cache) <= 1
    /\ \A p \in Procs :
          (/\ proc[p].pc = "done" /\ Answered(p)
           /\ hist.artisthash \notin {"none", proc[p].artisthash}) =>
              Len(cache) = 1 /\ cache[1].artisthash = proc[p].artisthash

\* C1, amended: that holds of requests served one at a time and answered
\* with a result (200): the artist is one the artist store knows.  (It holds
\* of the first request too.)
C1_HotIsLastServed ==
    /\ Len(cache) <= 1
    /\ \A p \in Procs :
          (proc[p].pc = "done" /\ proc[p].status = "200") =>
              Len(cache) = 1 /\ cache[1].artisthash = proc[p].artisthash

\* a second request, for another artist than the one before, has been served
C1_Witness ==
    \E p \in Procs :
        /\ proc[p].pc = "done" /\ proc[p].status = "200"
        /\ hist.artisthash \notin {"none", proc[p].artisthash}
        /\ Len(cache) = 1 /\ cache[1].artisthash = proc[p].artisthash

\* C2: a get_artist_albums request for an artist who has tracks, so that
\* add_albums_to_cache gives them an entry, never ends in an uncaught error,
\* whatever other requests run between its steps
C2_NoCrashAfterEviction ==
    \A p \in Procs :
        (IsDone(p, "albums")
           /\ TrackStore_get_tracks_by_artist(proc[p].artisthash) # <<>>)
        => proc[p].status = "200"

\* C3: a get_artist_albums request for an artist the artist store knows is
\* answered, and then the entry cached is the artist's, with albums_fetched
\* and type_checked set
C3_PopulateOnDemand ==
    \A p \in Procs :
        (IsDone(p, "albums") /\ proc[p].artisthash \in KnownArtists) =>
            /\ proc[p].status = "200"
            /\ Len(cache) = 1
            /\ cache[1].artisthash = proc[p].artisthash
            /\ cache[1].albums_fetched
            /\ cache[1].type_checked

\* C4: a get_artist_albums request that finds the artist's hot entry
\* type_checked hands no album to the external analysis, and answers with the
\* buckets of the request before it when that one was for the same artist
\* with the same arguments
C4_StageIdempotence ==
    \A p \in Procs :
        (IsDone(p, "albums") /\ proc[p].tc0) =>
            /\ proc[p].status = "200"
            /\ proc[p].calls = 0
            /\ (/\ hist.artisthash = proc[p].artisthash
                /\ hist.limit = proc[p].limit
                /\ hist.return_all = proc[p].return_all)
               => proc[p].resp = hist.resp

\* a repeated request whose artist has an album the analysis may see
\* differently from one run to the next
C4_Witness ==
    \E p \in Procs :
        /\ IsDone(p, "albums") /\ proc[p].tc0 /\ proc[p].status = "200"
        /\ hist.artisthash = proc[p].artisthash
        /\ hist.limit = proc[p].limit
        /\ hist.return_all = proc[p].return_all
        /\ proc[p].resp.singles # <<>>
        /\ \E al \in SetOf(proc[p].resp.singles) : Cardinality(DetectOutcomes(al)) > 1

\* the tracks and the credited albums of an artist, from the stores
TracksOf(h) == SelectSeq(AllTracks, LAMBDA t : h \in t.artists)
CreditedTo(h) == {al \in AlbumHashes : h \in AlbumArtists[al]}

\* C10, as claimed: get_artist answers with every track when the artist has
\* no credited album and fewer than 10 tracks, and with the first
\* min(limit, track count) tracks otherwise
C10_SummaryTruncation ==
    \A p \in Procs :
        (IsDone(p, "artist") /\ proc[p].status = "200") =>
            LET h == proc[p].artisthash
            IN  proc[p].resp.tracks =
                   IF CreditedTo(h) = {} /\ Len(TracksOf(h)) < TrackThreshold
                   THEN TracksOf(h)
                   ELSE IF proc[p].limit <= 0 THEN <<>>
                   ELSE FirstN(TracksOf(h), proc[p].limit)

\* C10, amended: the same for every limit >= 0; with a limit < 0 the other
\* case drops the last -limit tracks
C10_SummaryTruncationNonNegative ==
    \A p \in Procs :
        (IsDone(p, "artist") /\ proc[p].status = "200") =>
            LET h == proc[p].artisthash
            IN  proc[p].resp.tracks =
                   IF CreditedTo(h) = {} /\ Len(TracksOf(h)) < TrackThreshold
                   THEN TracksOf(h)
                   ELSE IF proc[p].limit >= 0
                   THEN FirstN(TracksOf(h), proc[p].limit)
                   ELSE FirstN(TracksOf(h), Max(0, Len(TracksOf(h)) + proc[p].limit))

\* the scenario: no credited album, 4 tracks, the default limit
C10_Witness ==
    \E p \in Procs :
        /\ IsDone(p, "artist") /\ proc[p].status = "200"
        /\ proc[p].limit = DefaultLimit
        /\ CreditedTo(proc[p].artisthash) = {}
        /\ Len(proc[p].resp.tracks) = 4

\* C11: every step of a request for an identity the artist store does not
\* know leaves ArtistsCache.artists as it was, and the step that ends the
\* request ends it with 404
C11_UnknownArtistNotFound ==
    [][\A p \in Procs :
          (proc'[p].artisthash \notin KnownArtists \cup {"none"}
             /\ proc'[p] # proc[p]) =>
              /\ cache' = cache
              /\ proc'[p].pc = "done" => proc'[p].status = "404"]_vars

(***************************************************************************)
(* find_album (server/app/lib/albumslib.py, lines 57-82): the binary       *)
(* search of api.ALBUMS for the hash of a title and an artist.  One step   *)
(* is one iteration of the while loop.                                     *)
(***************************************************************************)
\* the longest api.ALBUMS tried
MaxFindLen == 3

\* the titles and artists asked for, and helpers.create_album_hash of them
FindTitles == {"t1", "t2"}
FindArtists == {"x", "y"}
create_album_hash(albumtitle, artist) ==
    (IF albumtitle = "t1" THEN 0 ELSE 2) + (IF artist = "x" THEN 1 ELSE 2)
FindHashes == {create_album_hash(t, a) : t \in FindTitles, a \in FindArtists}

\* an Album of api.ALBUMS, and an element whose .hash cannot be read
WellFormed == [hash : FindHashes, ok : {TRUE}]
Malformed == [hash |-> 0, ok |-> FALSE]

\* the order api.ALBUMS.sort(key=lambda x: x.hash) leaves (line 48)
SortedByHash(l) ==
    \A i, j \in 1..Len(l) : (i < j /\ l[i].ok /\ l[j].ok) => l[i].hash <= l[j].hash

AlbumLists(elems) ==
    UNION {{l \in [1..n -> elems] : SortedByHash(l)} : n \in 0..MaxFindLen}

\* mutant: the interval keeps mid on the right (right = mid)
find_album_probe_keep_mid(f) ==
    LET mid == (f.left + f.right) \div 2
        hash == create_album_hash(f.albumtitle, f.artist)
        el == ALBUMS[mid + 1]
    IN  IF el.ok /\ el.hash = hash
        THEN [f EXCEPT !.pc = "done", !.iter = @ + 1,
                       !.result = [ret |-> "index", index |-> mid]]
        ELSE IF ~el.ok
        THEN [f EXCEPT !.pc = "done", !.iter = @ + 1,
                       !.result = [ret |-> "AttributeError", index |-> 0]]
        ELSE IF el.hash < hash
        THEN [f EXCEPT !.iter = @ + 1, !.left = mid + 1]
        ELSE [f EXCEPT !.iter = @ + 1, !.right = mid]

\* one iteration of the loop, lines 67-80: the frame after it.  The try
\* covers only the == of lines 72-73; line 77 reads .hash again outside it
find_album_probe(f) ==
    LET mid == (f.left + f.right) \div 2
        hash == create_album_hash(f.albumtitle, f.artist)
        el == ALBUMS[mid + 1]
    IN  IF el.ok /\ el.hash = hash
        THEN [f EXCEPT !.pc = "done", !.iter = @ + 1,
                       !.result = [ret |-> "index", index |-> mid]]
        ELSE IF ~el.ok
        THEN [f EXCEPT !.pc = "done", !.iter = @ + 1,
                       !.result = [ret |-> "AttributeError", index |-> 0]]
        ELSE IF el.hash < hash
        THEN [f EXCEPT !.iter = @ + 1, !.left = mid + 1]
        ELSE [f EXCEPT !.iter = @ + 1, !.right = mid - 1]

\* lines 62-64
FindEnter ==
    /\ find.pc = "l62"
    /\ find' = [find EXCEPT !.pc = "l66", !.left = 0,
                            !.right = Len(ALBUMS) - 1, !.iter = 0]
    /\ UNCHANGED <<cache, lists, flags, proc, hist, cls, ALBUMS, DB_TRACKS, gat, mrg>>

\* lines 66-80, while left <= right
FindLoop ==
    /\ find.pc = "l66"
    /\ find.left <= find.right
    /\ find' = find_album_probe(find)
    /\ UNCHANGED <<cache, lists, flags, proc, hist, cls, ALBUMS, DB_TRACKS, gat, mrg>>

\* line 82, once left > right
FindExit ==
    /\ find.pc = "l66"
    /\ find.left > find.right
    /\ find' = [find EXCEPT !.pc = "done",
                            !.result = [ret |-> "None", index |-> 0]]
    /\ UNCHANGED <<cache, lists, flags, proc, hist, cls, ALBUMS, DB_TRACKS, gat, mrg>>

FindNext == FindEnter \/ FindLoop \/ FindExit

\* a call find_album(albumtitle, artist) on a list of the given elements
FindInit(elems) ==
    /\ cache = <<>>
    /\ lists = [i \in ListIds |-> <<>>]
    /\ flags = [al \in AlbumHashes |->
                  [checked |-> FALSE, is_single |-> FALSE, is_EP |-> FALSE,
                   is_compilation |-> FALSE]]
    /\ proc = [p \in Procs |-> Idle]
    /\ hist = NoHist
    /\ cls = NoCls
    /\ DB_TRACKS = <<>>
    /\ gat = NoGat
    /\ mrg = NoMrg
    /\ ALBUMS \in AlbumLists(elems)
    /\ \E t \in FindTitles, a \in FindArtists :
          find = [NoFind EXCEPT !.pc = "l62", !.albumtitle = t, !.artist = a]

\* every api.ALBUMS that create_everything can leave: Albums sorted by hash
FindSpec == FindInit(WellFormed) /\ [][FindNext]_vars

\* the same with elements whose hash cannot be read
FindBadSpec == FindInit(WellFormed \cup {Malformed}) /\ [][FindNext]_vars

FindHash == create_album_hash(find.albumtitle, find.artist)
FindMatches == {i \in 1..Len(ALBUMS) : ALBUMS[i].ok /\ ALBUMS[i].hash = FindHash}

\* C12: on every api.ALBUMS sorted by hash, the empty one included,
\* find_album ends (each iteration shrinks the interval left..right), with
\* the index of an element whose hash is the one asked for when there is
\* one, and with None, never an error, when there is none
C12_FindAlbumCorrect ==
    /\ find.pc = "l66" =>
          /\ find.iter <= Len(ALBUMS)
          /\ Max(0, find.right - find.left + 1) + find.iter <= Len(ALBUMS)
    /\ find.pc = "done" =>
          IF FindMatches # {}
          THEN find.result.ret = "index" /\ find.result.index + 1 \in FindMatches
          ELSE find.result.ret = "None"

\* a hit in a list of MaxFindLen albums that took more than one probe
C12_Witness ==
    /\ find.pc = "done"
    /\ Len(ALBUMS) = MaxFindLen
    /\ find.iter > 1
    /\ find.result.ret = "index"
    /\ ALBUMS[find.result.index + 1].hash = FindHash

\* C13: a find_album whose probe lands on an element whose hash cannot be
\* read does not abort: it ends with an index or with None
C13_MalformedSkipped ==
    find.pc = "done" => find.result.ret \in {"index", "None"}

(***************************************************************************)
(* GetAlbumTracks and get_album_tracks (albumslib.py, lines 133-159) on    *)
(* the shared pool api.DB_TRACKS.  self.tracks is the pool itself (line    *)
(* 141), so the one variable DB_TRACKS stands for both; gat.tracks is the  *)
(* local list of find_tracks.  One step is one iteration of its loop.      *)
(***************************************************************************)
\* the most tracks in api.DB_TRACKS
MaxPool == 3

\* the pools: each track has its own id and the hash of some album
Pools ==
    UNION {{l \in [1..n -> [id : 1..n, albumhash : FindHashes]] :
               \A i \in 1..n : l[i].id = i} : n \in 0..MaxPool}

\* list.sort(key=lambda x: x["albumhash"]): stable, ascending
RECURSIVE SortByAlbumhash(_, _)
SortByAlbumhash(s, hashes) ==
    IF hashes = {} THEN <<>>
    ELSE LET h == CHOOSE x \in hashes : \A y \in hashes : x <= y
         IN  SelectSeq(s, LAMBDA t : t.albumhash = h)
                \o SortByAlbumhash(s, hashes \ {h})

\* trackslib.find_track(tracks, hash): the indices it may return; none of
\* them when no track has the hash (it returns None)
find_track(tracks, hash) ==
    {i \in 0..(Len(tracks) - 1) : tracks[i + 1].albumhash = hash}

\* mutant: nothing is removed
find_tracks_remove_none(pool, index) == pool

\* lines 149-151: the pool after self.tracks.remove(self.tracks[index])
find_tracks_remove(pool, index) == ListRemove(pool, pool[index + 1])

\* mutant: the extracted tracks are not put back
find_tracks_extend_nothing(pool, tracks) == pool

\* line 154: the pool after api.DB_TRACKS.extend(tracks)
find_tracks_extend(pool, tracks) == pool \o tracks

\* one result of find_track, as the local index (-1 stands for None)
PickIndex(f, pool, index) ==
    /\ IF find_track(pool, f.hash) = {} THEN index = -1
       ELSE index \in find_track(pool, f.hash)
    /\ gat' = [f EXCEPT !.pc = "l148", !.index = index]

\* GetAlbumTracks(album, artist), lines 139-142
GatInit ==
    /\ gat.pc = "idle"
    /\ \E album \in FindTitles, artist \in FindArtists :
          gat' = [NoGat EXCEPT !.pc = "l145",
                               !.hash = create_album_hash(album, artist),
                               !.pool0 = DB_TRACKS]
    /\ DB_TRACKS' = SortByAlbumhash(DB_TRACKS, FindHashes)
    /\ UNCHANGED <<cache, lists, flags, proc, hist, cls, ALBUMS, find, mrg>>

\* find_tracks, lines 145-146
FindTracksEnter ==
    /\ gat.pc = "l145"
    /\ \E index \in (-1)..(Len(DB_TRACKS) - 1) :
          PickIndex([gat EXCEPT !.tracks = <<>>], DB_TRACKS, index)
    /\ UNCHANGED <<cache, lists, flags, proc, hist, cls, ALBUMS, find, DB_TRACKS, mrg>>

\* lines 148-152, while index is not None
FindTracksLoop ==
    /\ gat.pc = "l148"
    /\ gat.index # -1
    /\ LET track == DB_TRACKS[gat.index + 1]
           pool == find_tracks_remove(DB_TRACKS, gat.index)
       IN  /\ DB_TRACKS' = pool
           /\ \E index \in (-1)..(Len(pool) - 1) :
                 PickIndex([gat EXCEPT !.tracks = Append(@, track)], pool, index)
    /\ UNCHANGED <<cache, lists, flags, proc, hist, cls, ALBUMS, find, mrg>>

\* lines 154-155, once index is None
FindTracksReturn ==
    /\ gat.pc = "l148"
    /\ gat.index = -1
    /\ DB_TRACKS' = find_tracks_extend(DB_TRACKS, gat.tracks)
    /\ gat' = [gat EXCEPT !.pc = "done", !.result = gat.tracks]
    /\ UNCHANGED <<cache, lists, flags, proc, hist, cls, ALBUMS, find, mrg>>

\* the caller goes on (create_album, lines 171-172), to call again later
GatDone ==
    /\ gat.pc = "done"
    /\ gat' = NoGat
    /\ UNCHANGED <<cache, lists, flags, proc, hist, cls, ALBUMS, find, DB_TRACKS, mrg>>

PoolNext ==
    GatInit \/ FindTracksEnter \/ FindTracksLoop \/ FindTracksReturn \/ GatDone

PoolInit ==
    /\ cache = <<>>
    /\ lists = [i \in ListIds |-> <<>>]
    /\ flags = [al \in AlbumHashes |->
                  [checked |-> FALSE, is_single |-> FALSE, is_EP |-> FALSE,
                   is_compilation |-> FALSE]]
    /\ proc = [p \in Procs |-> Idle]
    /\ hist = NoHist
    /\ cls = NoCls
    /\ ALBUMS = <<>>
    /\ find = NoFind
    /\ mrg = NoMrg
    /\ gat = NoGat
    /\ DB_TRACKS \in Pools

\* any sequence of get_album_tracks calls on any pool
PoolSpec == PoolInit /\ [][PoolNext]_vars

(***************************************************************************)
(* Properties of find_album and GetAlbumTracks                             *)
(***************************************************************************)
\* the tracks of a list that have the hash asked for, in the list's order
OfAlbum(s) == SelectSeq(s, LAMBDA t : t.albumhash = gat.hash)
NotOfAlbum(s) == SelectSeq(s, LAMBDA t : t.albumhash # gat.hash)
\* the last n elements of a list
LastN(s, n) == SubSeq(s, Len(s) - n + 1, Len(s))

\* C14, as claimed: once find_tracks has returned, api.DB_TRACKS holds no
\* track whose albumhash is the hash asked for
C14_PoolHasNoAlbumTrack ==
    gat.pc = "done" => OfAlbum(DB_TRACKS) = <<>>

\* C14, amended: once find_tracks has returned, the list returned holds
\* each track of the album once, and api.DB_TRACKS holds them too, as its
\* last elements and nowhere else
C14_AlbumTracksAtPoolEnd ==
    gat.pc = "done" =>
        /\ SetOf(gat.result) = SetOf(OfAlbum(gat.pool0))
        /\ Len(gat.result) = Len(OfAlbum(gat.pool0))
        /\ Len(gat.result) <= Len(DB_TRACKS)
        /\ LastN(DB_TRACKS, Len(gat.result)) = gat.result
        /\ OfAlbum(SubSeq(DB_TRACKS, 1, Len(DB_TRACKS) - Len(gat.result))) = <<>>

\* a call that found two tracks of the album in a pool that has another
C14_Witness ==
    /\ gat.pc = "done"
    /\ Len(gat.result) = 2
    /\ Len(DB_TRACKS) = MaxPool
    /\ OfAlbum(DB_TRACKS) = gat.result

\* two lists hold the same tracks, each as often
SameTracks(s, t) ==
    /\ Len(s) = Len(t)
    /\ \A x \in SetOf(s) \cup SetOf(t) : Count(s, x) = Count(t, x)

\* C20: find_tracks ends (each iteration moves one track of the album from
\* the pool to the local list, and the pool has finitely many), the pool
\* and the local list together always hold the tracks the pool held at the
\* call, and once it has returned api.DB_TRACKS holds those same tracks,
\* each once: the others in sorted order, then the extracted ones
C20_PoolConserved ==
    /\ gat.pc = "l148" =>
          /\ Len(gat.tracks) + Len(OfAlbum(DB_TRACKS)) = Len(OfAlbum(gat.pool0))
          /\ OfAlbum(gat.tracks) = gat.tracks
          /\ SameTracks(DB_TRACKS \o gat.tracks, gat.pool0)
          /\ gat.index = -1 <=> OfAlbum(DB_TRACKS) = <<>>
    /\ gat.pc = "done" =>
          /\ SameTracks(DB_TRACKS, gat.pool0)
          /\ DB_TRACKS = NotOfAlbum(SortByAlbumhash(gat.pool0, FindHashes))
                            \o gat.result

\* a call on a pool that an earlier call left out of order, which moves two
\* tracks behind another one
C20_Witness ==
    /\ gat.pc = "done"
    /\ gat.pool0 # SortByAlbumhash(gat.pool0, FindHashes)
    /\ Len(gat.result) = 2
    /\ NotOfAlbum(DB_TRACKS) # <<>>
    /\ DB_TRACKS # gat.pool0

(***************************************************************************)
(* Properties of the cache entries' life (Spec, SeqSpec)                   *)
(***************************************************************************)
\* C15: while the hot artist stays the same, a step never discards what the
\* hot entry holds: its loaded tracks stay, its album list does not become
\* empty again, and its stage flags stay set (add_entry, which puts a fresh
\* entry in its place, is not called for the hot artist)
C15_HotEntryMutatedInPlace ==
    [][(/\ Len(cache) = 1 /\ Len(cache') = 1
        /\ cache[1].artisthash = cache'[1].artisthash) =>
           /\ cache[1].tracks # <<>> => cache'[1].tracks = cache[1].tracks
           /\ ListVal(lists, cache[1].albums) # <<>>
                 => ListVal(lists', cache'[1].albums) # <<>>
           /\ cache[1].albums_fetched => cache'[1].albums_fetched
           /\ cache[1].type_checked => cache'[1].type_checked]_vars

\* C16: an entry that is type_checked is albums_fetched, and each stage's
\* work runs at most once on an entry: get_albums only stores its merge
\* into an entry not yet albums_fetched, and process_album_type only
\* processes an entry not yet type_checked
C16_StagesInOrderOnce ==
    [][/\ \A i \in 1..Len(cache') :
             cache'[i].type_checked => cache'[i].albums_fetched
       /\ \A p \in Procs :
             /\ (At(p, "l114") /\ ~At(p, "l114")' /\ proc[p].held >= 1)
                   => ~cache[proc[p].held].albums_fetched
             /\ (At(p, "l129") /\ proc'[p].pc = "l235")
                   => ~cache[EntryPos(cache, proc[p].artisthash)].type_checked]_vars

\* C17: in every state, every album in the album list of a type_checked
\* entry has been through the external analysis, so the classifier reads no
\* flag that was never computed
C17_TypeCheckedIsComplete ==
    \A i \in 1..Len(cache) :
        cache[i].type_checked =>
            \A al \in SetOf(ListVal(lists, cache[i].albums)) : flags[al].checked

\* C19: when get_artist_albums(A) is about to consult type_checked through
\* ArtistsCache.artists[index] (line 232), the entry it will read is A's,
\* also when index is -1
C19_StageReadIsOwnEntry ==
    \A p \in Procs :
        (At(p, "l232") /\ DequeItem(cache, proc[p].index) # 0) =>
            cache[DequeItem(cache, proc[p].index)].artisthash = proc[p].artisthash

(***************************************************************************)
(* The merge of get_albums (artist.py, lines 114-120) on its own: any      *)
(* albums resolved from the entry's albumhashes, any albums the store      *)
(* returns, with identities that are substrings of others                  *)
(***************************************************************************)
\* the longest list of resolved albums, and of the store's albums
MaxMerge == 2

MergeAlbums == {"al0", "al1", "al2", "al3"}

\* the lists of up to MaxMerge albums, none twice
MergeLists ==
    UNION {{l \in [1..n -> MergeAlbums] :
               \A i, j \in 1..n : i # j => l[i] # l[j]} : n \in 0..MaxMerge}

MergeInit ==
    /\ cache = <<>>
    /\ lists = [i \in ListIds |-> <<>>]
    /\ flags = [al \in AlbumHashes |->
                  [checked |-> FALSE, is_single |-> FALSE, is_EP |-> FALSE,
                   is_compilation |-> FALSE]]
    /\ proc = [p \in Procs |-> Idle]
    /\ hist = NoHist
    /\ cls = NoCls
    /\ ALBUMS = <<>>
    /\ find = NoFind
    /\ DB_TRACKS = <<>>
    /\ gat = NoGat
    /\ \E albums \in MergeLists, store_albums \in MergeLists :
          mrg = [NoMrg EXCEPT !.albums = albums, !.store_albums = store_albums]

\* lines 114-120 applied to the drawn lists
Merge ==
    /\ ~mrg.done
    /\ mrg' = [mrg EXCEPT !.done = TRUE,
                          !.result = MergedAlbums(mrg.albums, mrg.store_albums)]
    /\ UNCHANGED <<cache, lists, flags, proc, hist, cls, ALBUMS, find, DB_TRACKS, gat>>

MergeSpec == MergeInit /\ [][Merge]_vars

\* C18: after the merge entry.albums holds every album resolved from the
\* albumhashes and every album the store returned, none of them twice: a
\* store album is left out only if an album with the same albumhash was
\* resolved, whatever the identity strings are
C18_MergeIsExact ==
    mrg.done =>
        /\ SetOf(mrg.result) = SetOf(mrg.albums) \cup SetOf(mrg.store_albums)
        /\ \A al \in SetOf(mrg.result) : Count(mrg.result, al) = 1

====
